---- MODULE Spec2Model ----
(***************************************************************************)
(* Model of backend/scraper/scraper.py (class Property24Scraper).           *)
(*                                                                         *)
(*   Spec        the pagination loop of scrape_area, with the page         *)
(*               assembler _extract_all_properties_from_page applied to    *)
(*               every fetched page.                                       *)
(*   SpecImages  extract_property_images applied to one listing element.   *)
(*                                                                         *)
(* Python strings whose content matters are sequences of chunks (an area   *)
(* name is a sequence of characters, an image URL a sequence of URL        *)
(* pieces), so that lower(), replace(), startswith() and "in" are          *)
(* computed and not assumed.  An optional value is a sequence of length    *)
(* at most one: <<>> is None / a missing dict key, <<v>> is v.             *)
(***************************************************************************)
EXTENDS Integers, Sequences, FiniteSets, TLC

VARIABLES
    \* ---- scrape_area: arguments
    area,                     \* the area argument, a sequence of characters
    max_pages,                \* the max_pages argument, <<>> for None
    \* ---- scrape_area: locals
    pc,                       \* "start" | "loop" | "returned" | "raised"
    all_properties,
    seen_urls,
    page,
    consecutive_empty_pages,
    page_properties,          \* what the page assembler returned for the last page
    new_properties,           \* what the cross-page filter kept of it
    result,                   \* the value scrape_area returned
    \* ---- scrape_area: observation of the run
    fetched,                  \* page numbers passed to session.get, in order
    new_hist,                 \* per assembled page: did it contribute a record
    origin,                   \* origin[i] = page that produced all_properties[i]
    outcome,                  \* how the last loop iteration ended
    \* ---- _extract_all_properties_from_page, on its own
    ppc,                      \* "idle" | "ready" | "done"
    soup_in,                  \* the parsed page handed to the assembler
    page_out,                 \* the list the assembler returned
    \* ---- extract_property_images
    ipc,                      \* "idle" | "ready" | "done" | "again"
    element,                  \* the listing element handed to the resolver
    images_out,               \* the list the resolver returned
    images_again,             \* the list a second call on the element returned
    \* one call of _extract_property_data_enhanced
    fpc,                      \* "idle" | "ready" | "done"
    fragment,                 \* the element: its text nodes, anchors and media
    extract_images,           \* the extract_images argument
    field_out,                \* what the extractor returned: None or a record
    \* one call of scrape_multiple_areas
    mpc,                      \* "idle" | "loop" | "running" | "done"
    areas,                    \* the caller's list of areas
    area_idx,                 \* position in areas of the area being scraped
    multi_properties,         \* all_properties of scrape_multiple_areas
    df,                       \* the frame returned
    fetch_log,                \* every fetch issued so far: <<area_idx, page>>
    \* the pacing of the fetches
    delay,                    \* self.delay, the delay argument of the constructor
    events,                   \* every fetch issued and every time.sleep, in order
    \* Method 3 of the image resolver on one script block
    jpc,                      \* "idle" | "ready" | "done"
    payload,                  \* json.loads(script.string): None when it raises
    json_images,              \* the images list after the block
    \* the properties collection and DatabaseUtils.bulk_insert_properties
    stored,                   \* the documents of the collection, in insertion order
    bulk_calls,               \* calls of bulk_insert_properties made so far
    bulk_ret,                 \* what the last call returned
    \* requests to /api/scraper/import being handled
    ipc_req,                  \* per request: "convert" | "find" | "write" | "done"
    scraped_properties,       \* per request: the list in its body
    req_idx,                  \* per request: position in the list
    existing,                 \* per request: what find_one gave
    processed_count           \* per request: the counter

scrapeVars == <<area, max_pages, pc, all_properties, seen_urls, page,
                consecutive_empty_pages, page_properties, new_properties,
                result, fetched, new_hist, origin, outcome>>
pageVars == <<ppc, soup_in, page_out>>
imageVars == <<ipc, element, images_out, images_again>>
fieldVars == <<fpc, fragment, extract_images, field_out>>
multiVars == <<mpc, areas, area_idx, multi_properties, df, fetch_log>>
paceVars == <<delay, events>>
jsonVars == <<jpc, payload, json_images>>
bulkVars == <<stored, bulk_calls, bulk_ret>>
importVars == <<ipc_req, scraped_properties, req_idx, existing, processed_count>>
\* the variables no action of the scraper touches
restVars == <<jsonVars, bulkVars, importVars>>
vars == <<scrapeVars, pageVars, imageVars, fieldVars, multiVars, paceVars, restVars>>

-----------------------------------------------------------------------------
(* Generic helpers *)

None == <<>>
Some(v) == <<v>>

Range(s) == {s[i] : i \in 1..Len(s)}

RECURSIVE SeqsUpTo(_, _)
SeqsUpTo(S, n) ==
    IF n = 0 THEN {<<>>}
    ELSE LET shorter == SeqsUpTo(S, n - 1)
         IN  shorter \cup {Append(s, x) : s \in {t \in shorter : Len(t) = n - 1}, x \in S}

-----------------------------------------------------------------------------
(* Bounds of the model *)

\* pages a run without effective ceiling is followed for
MaxPage == 3
\* listing blocks on one page of a run
MaxFrags == 2
\* elements one selector matches on the page given to the page assembler
MaxMatches == 2
\* img tags, and script blocks, of the element given to the image resolver
MaxImgs == 2
MaxScripts == 1
\* elements with a background-image style in it
MaxBgs == 1
\* largest page ceiling a caller passes
MaxCeiling == 2

-----------------------------------------------------------------------------
(* Area names: characters, str.lower() and str.replace() *)

UpperCase == <<"A","B","C","D","E","F","G","H","I","J","K","L","M",
               "N","O","P","Q","R","S","T","U","V","W","X","Y","Z">>
LowerCase == <<"a","b","c","d","e","f","g","h","i","j","k","l","m",
               "n","o","p","q","r","s","t","u","v","w","x","y","z">>

\* str.lower() on one character
LowerChar(c) ==
    IF \E i \in 1..Len(UpperCase) : UpperCase[i] = c
    THEN LowerCase[CHOOSE i \in 1..Len(UpperCase) : UpperCase[i] = c]
    ELSE c

\* str.lower()
Lower(s) == [i \in 1..Len(s) |-> LowerChar(s[i])]

\* str.replace(old, new) for a one-character old
Replace(s, old, new) == [i \in 1..Len(s) |-> IF s[i] = old THEN new ELSE s[i]]

\* area.lower().replace(" ", "-").replace("_", "-")
NormalizeArea(a) == Replace(Replace(Lower(a), " ", "-"), "_", "-")

\* the module-level table PROPERTY24_AREA_CODES
PROPERTY24_AREA_CODES ==
    { <<<<"s","e","a","-","p","o","i","n","t">>, 11021>>,
      <<<<"g","r","e","e","n","-","p","o","i","n","t">>, 11017>>,
      <<<<"c","a","m","p","s","-","b","a","y">>, 11014>>,
      <<<<"c","l","i","f","t","o","n">>, 11015>>,
      <<<<"f","r","e","s","n","a","y","e">>, 11016>>,
      <<<<"m","o","u","i","l","l","e","-","p","o","i","n","t">>, 11018>>,
      <<<<"d","e","-","w","a","t","e","r","k","a","n","t">>, 9141>>,
      <<<<"g","a","r","d","e","n","s">>, 9145>>,
      <<<<"o","r","a","n","j","e","z","i","c","h","t">>, 9155>>,
      <<<<"t","a","m","b","o","e","r","s","k","l","o","o","f">>, 9163>>,
      <<<<"v","r","e","d","e","h","o","e","k">>, 9166>> }

\* PROPERTY24_AREA_CODES.get(name): None when the key is missing
AreaCodeGet(name) ==
    IF \E e \in PROPERTY24_AREA_CODES : e[1] = name
    THEN Some((CHOOSE e \in PROPERTY24_AREA_CODES : e[1] = name)[2])
    ELSE None

\* a mutated guard: the unknown-area check never rejects
NoAreaCodeNever(area_code) == FALSE

\* "if not area_code": None, or the (never configured) code 0
NoAreaCode(area_code) == area_code = None \/ area_code[1] = 0

\* area arguments callers pass
AreaInputs ==
    { <<"S","e","a"," ","P","o","i","n","t">>,
      <<"U","n","k","n","o","w","n"," ","P","l","a","c","e">>,
      <<"s","e","a"," "," ","p","o","i","n","t">>,
      <<"S","E","A","P","O","I","N","T">>,
      <<"c","a","m","p","s","_","b","a","i">> }

-----------------------------------------------------------------------------
(* The page assembler: _extract_all_properties_from_page                   *)
(*                                                                         *)
(* A node of the parsed page carries the length of its get_text() and the  *)
(* value _extract_property_data_enhanced returns for it (None, or a dict   *)
(* of which the fields price, bedrooms, size_sqm and url are kept; a       *)
(* missing url key is the empty string, as prop.get('url', '') reads it).  *)
(* An element matched by a selector is a node with its tag name and its    *)
(* ancestors, nearest first.                                               *)

\* the selectors list, in its order
Selectors ==
    << "div[class*=listing]", "div[class*=p24_]", "div[class*=tile]",
       "div[class*=property]", "article[class*=listing]", "div[class*=result]",
       ".p24_regularTile", ".js_listingTile", "[data-listing-number]",
       "div[class*=sc_listingTile]", "div[class*=ListingTile]",
       "div[class*=propertyTile]", "a[href*=/for-sale/][href*=plId=]" >>

\* the text length below which the walk from an anchor goes on upwards
MinContainerText == 50

\* a walk that stops at the first ancestor, whatever its text
WalkUpOnce(parents, i) ==
    IF i > Len(parents) THEN None ELSE Some(parents[i])

\* first ancestor, from index i on, whose text has at least 50 characters
RECURSIVE WalkUp(_, _)
WalkUp(parents, i) ==
    IF i > Len(parents) THEN None
    ELSE IF parents[i].textlen < MinContainerText THEN WalkUp(parents, i + 1)
    ELSE Some(parents[i])

\* the container of a matched element: its ancestor for an anchor, else itself
Container(el) ==
    IF el.name = "a" THEN WalkUp(el.parents, 1) ELSE Some(el.node)

\* self._extract_property_data_enhanced(container, extract_images)
ExtractPropertyDataEnhanced(container) == container.prop

\* key = (prop.get('price'), prop.get('bedrooms'), prop.get('size_sqm'))
Key(prop) == <<prop.price, prop.bedrooms, prop.size_sqm>>

\* a mutated discovery: only the first selector that matches is applied
RECURSIVE DiscoverFirstMatch(_, _)
DiscoverFirstMatch(soup, k) ==
    IF k > Len(Selectors) THEN <<>>
    ELSE IF Len(soup[k]) > 0
         THEN [i \in 1..Len(soup[k]) |-> [selector |-> Selectors[k], el |-> soup[k][i]]]
         ELSE DiscoverFirstMatch(soup, k + 1)

\* soup.select(selector) for every selector in turn, elements in document order
RECURSIVE Discover(_, _)
Discover(soup, k) ==
    IF k > Len(Selectors) THEN <<>>
    ELSE [i \in 1..Len(soup[k]) |-> [selector |-> Selectors[k], el |-> soup[k][i]]]
         \o Discover(soup, k + 1)

\* a mutated loop body: every accepted record is appended, seen or not
AssembleStepNoDedup(st, m, area_arg) ==
    LET container == Container(m.el)
        prop == IF container = None THEN None
                ELSE ExtractPropertyDataEnhanced(container[1])
    IN  IF prop = None THEN st
        ELSE [all  |-> Append(st.all, [price |-> prop[1].price,
                                       bedrooms |-> prop[1].bedrooms,
                                       size_sqm |-> prop[1].size_sqm,
                                       url |-> prop[1].url,
                                       area |-> area_arg,
                                       selector_used |-> m.selector]),
              seen |-> st.seen \cup {Key(prop[1])}]

\* a mutated loop body: the url is made part of the key
AssembleStepKeyWithUrl(st, m, area_arg) ==
    LET container == Container(m.el)
        prop == IF container = None THEN None
                ELSE ExtractPropertyDataEnhanced(container[1])
    IN  IF prop = None THEN st
        ELSE IF <<Key(prop[1]), prop[1].url>> \in st.seen THEN st
        ELSE [all  |-> Append(st.all, [price |-> prop[1].price,
                                       bedrooms |-> prop[1].bedrooms,
                                       size_sqm |-> prop[1].size_sqm,
                                       url |-> prop[1].url,
                                       area |-> area_arg,
                                       selector_used |-> m.selector]),
              seen |-> st.seen \cup {<<Key(prop[1]), prop[1].url>>}]

\* the body of the inner loop, for one matched element
AssembleStep(st, m, area_arg) ==
    LET container == Container(m.el)
        prop == IF container = None THEN None
                ELSE ExtractPropertyDataEnhanced(container[1])
    IN  IF prop = None THEN st
        ELSE IF Key(prop[1]) \in st.seen THEN st
        ELSE [all  |-> Append(st.all, [price |-> prop[1].price,
                                       bedrooms |-> prop[1].bedrooms,
                                       size_sqm |-> prop[1].size_sqm,
                                       url |-> prop[1].url,
                                       area |-> area_arg,
                                       selector_used |-> m.selector]),
              seen |-> st.seen \cup {Key(prop[1])}]

RECURSIVE AssembleFrom(_, _, _, _)
AssembleFrom(matches, i, st, area_arg) ==
    IF i > Len(matches) THEN st
    ELSE AssembleFrom(matches, i + 1, AssembleStep(st, matches[i], area_arg), area_arg)

\* _extract_all_properties_from_page(soup, area, extract_images)
ExtractAllPropertiesFromPage(soup, area_arg) ==
    AssembleFrom(Discover(soup, 1), 1, [all |-> <<>>, seen |-> {}], area_arg).all

\* how many matched elements of the page yield a record, before the key dedup
AcceptedCount(soup) ==
    LET ms == Discover(soup, 1)
    IN  Cardinality({i \in 1..Len(ms) :
            /\ Container(ms[i].el) # None
            /\ ExtractPropertyDataEnhanced(Container(ms[i].el)[1]) # None})

-----------------------------------------------------------------------------
(* scrape_area: inputs *)

\* a dict _extract_property_data_enhanced returns
Prop(price, bedrooms, size_sqm, url) ==
    [price |-> price, bedrooms |-> bedrooms, size_sqm |-> size_sqm, url |-> url]

\* a block whose text is a listing, and one the field extractor rejects
ListingNode(r) == [textlen |-> 60, prop |-> Some(r)]
RejectedNode == [textlen |-> 12, prop |-> None]

\* the blocks of the site: one that is no listing, a priced listing with a
\* link, a development (no price) behind the same link, the priced listing
\* without a link, and the priced listing behind another link
FragInputs ==
    { RejectedNode,
      ListingNode(Prop(Some(1200000), Some(2), Some(85), "https://www.property24.com/for-sale/a")),
      ListingNode(Prop(None, None, None, "https://www.property24.com/for-sale/a")),
      ListingNode(Prop(Some(1200000), Some(2), Some(85), "")),
      ListingNode(Prop(Some(1200000), Some(2), Some(85), "https://www.property24.com/for-sale/b")) }

Div(n) == [name |-> "div", node |-> n, parents |-> <<>>]
\* the listing's link: its own text and its wrapper are short, the block is above
AnchorIn(n) ==
    [name |-> "a", node |-> [textlen |-> 12, prop |-> None],
     parents |-> <<[textlen |-> 20, prop |-> None], n>>]

\* a page on which every block matches the first and the fourth selector and
\* its link matches the last one
SoupOf(frags) ==
    [k \in 1..Len(Selectors) |->
        IF k \in {1, 4} THEN [i \in 1..Len(frags) |-> Div(frags[i])]
        ELSE IF k = Len(Selectors) THEN [i \in 1..Len(frags) |-> AnchorIn(frags[i])]
        ELSE <<>>]

SoupInputs == {SoupOf(frags) : frags \in SeqsUpTo(FragInputs, MaxFrags)}

\* max_pages arguments: None, or a ceiling
MaxPagesInputs == {None} \cup {Some(c) : c \in 0..MaxCeiling}

-----------------------------------------------------------------------------
(* scrape_area: the loop *)

\* a mutated filter: the url is never recorded as seen
FilterDuplicatesForgetful(props, seen) ==
    LET Unseen(q) == q.url = "" \/ q.url \notin seen
    IN  [new |-> SelectSeq(props, Unseen), seen |-> seen]

\* a mutated filter: the empty url is treated like any other url
RECURSIVE FilterDuplicatesAllUrls(_, _)
FilterDuplicatesAllUrls(props, seen) ==
    IF props = <<>> THEN [new |-> <<>>, seen |-> seen]
    ELSE LET prop == Head(props)
             prop_url == prop.url
         IN  IF prop_url \notin seen
             THEN LET rest == FilterDuplicatesAllUrls(Tail(props), seen \cup {prop_url})
                  IN  [new |-> <<prop>> \o rest.new, seen |-> rest.seen]
             ELSE FilterDuplicatesAllUrls(Tail(props), seen)

\* "Filter duplicates": the loop over page_properties, from the set seen so far
RECURSIVE FilterDuplicates(_, _)
FilterDuplicates(props, seen) ==
    IF props = <<>> THEN [new |-> <<>>, seen |-> seen]
    ELSE LET prop == Head(props)
             prop_url == prop.url
         IN  IF prop_url # "" /\ prop_url \notin seen
             THEN LET rest == FilterDuplicates(Tail(props), seen \cup {prop_url})
                  IN  [new |-> <<prop>> \o rest.new, seen |-> rest.seen]
             ELSE IF prop_url = ""
             THEN LET rest == FilterDuplicates(Tail(props), seen)
                  IN  [new |-> <<prop>> \o rest.new, seen |-> rest.seen]
             ELSE FilterDuplicates(Tail(props), seen)

\* a mutated stop rule: three pages without a new record
EmptyRuleThree == consecutive_empty_pages >= 3

\* "if consecutive_empty_pages >= 2: break"
EmptyRule == consecutive_empty_pages >= 2

\* "if max_pages and page > max_pages: break" (None and 0 are both falsy)
CeilingReached == max_pages # None /\ max_pages[1] # 0 /\ page > max_pages[1]

\* a mutated start: the seen set and the empty-page counter of an earlier
\* call are carried over
StartKeepingState ==
    /\ pc = "start"
    /\ LET area_normalized == NormalizeArea(area)
           area_code == AreaCodeGet(area_normalized)
       IN  IF NoAreaCode(area_code)
           THEN /\ pc' = "returned"
                /\ result' = <<>>
                /\ outcome' = "unknown_area"
           ELSE /\ pc' = "loop"
                /\ UNCHANGED <<result, outcome>>
    /\ all_properties' = <<>>
    /\ page' = 1
    /\ UNCHANGED <<area, max_pages, seen_urls, consecutive_empty_pages,
                   page_properties, new_properties, fetched,
                   new_hist, origin, pageVars, imageVars, fieldVars, multiVars, paceVars, restVars>>

\* the first lines of scrape_area: normalise, look up, reject or initialise
Start ==
    /\ pc = "start"
    /\ LET area_normalized == NormalizeArea(area)
           area_code == AreaCodeGet(area_normalized)
       IN  IF NoAreaCode(area_code)
           THEN /\ pc' = "returned"
                /\ result' = <<>>
                /\ outcome' = "unknown_area"
           ELSE /\ pc' = "loop"
                /\ UNCHANGED <<result, outcome>>
    /\ all_properties' = <<>>
    /\ seen_urls' = {}
    /\ page' = 1
    /\ consecutive_empty_pages' = 0
    /\ UNCHANGED <<area, max_pages, page_properties, new_properties, fetched,
                   new_hist, origin, pageVars, imageVars, fieldVars, multiVars, paceVars, restVars>>

\* break at the top of the loop, then "return all_properties"
StopEmptyPages ==
    /\ pc = "loop"
    /\ EmptyRule
    /\ pc' = "returned"
    /\ result' = all_properties
    /\ outcome' = "empty_rule"
    /\ UNCHANGED <<area, max_pages, all_properties, seen_urls, page,
                   consecutive_empty_pages, page_properties, new_properties,
                   fetched, new_hist, origin, pageVars, imageVars, fieldVars, multiVars, paceVars, restVars>>

StopCeiling ==
    /\ pc = "loop"
    /\ ~EmptyRule
    /\ CeilingReached
    /\ pc' = "returned"
    /\ result' = all_properties
    /\ outcome' = "ceiling"
    /\ UNCHANGED <<area, max_pages, all_properties, seen_urls, page,
                   consecutive_empty_pages, page_properties, new_properties,
                   fetched, new_hist, origin, pageVars, imageVars, fieldVars, multiVars, paceVars, restVars>>

\* self.session.get(url, timeout=15) for a page, and time.sleep(seconds)
FetchEvent(pg) == [e |-> "fetch", n |-> pg]
SleepEvent(seconds) == [e |-> "sleep", n |-> seconds]

\* a mutated iteration: no pause after the page
EventsAfterPageNoSleep(ev, pg, d) == Append(ev, FetchEvent(pg))

\* the fetch at the top of the try body and the time.sleep(self.delay) at its end
EventsAfterPage(ev, pg, d) == Append(Append(ev, FetchEvent(pg)), SleepEvent(d))

\* a mutated iteration: the page number is not advanced
PageAfterSame(pg) == pg

\* page += 1
PageAfter(pg) == pg + 1

\* one iteration whose fetch answers 200: assemble, filter, count, next page
FetchAssemble(soup) ==
    /\ pc = "loop"
    /\ ~EmptyRule
    /\ ~CeilingReached
    /\ page <= MaxPage
    /\ LET assembled == ExtractAllPropertiesFromPage(soup, area)
           filtered == FilterDuplicates(assembled, seen_urls)
       IN  /\ page_properties' = assembled
           /\ new_properties' = filtered.new
           /\ seen_urls' = filtered.seen
           /\ IF filtered.new # <<>>
              THEN /\ all_properties' = all_properties \o filtered.new
                   /\ consecutive_empty_pages' = 0
              ELSE /\ all_properties' = all_properties
                   /\ consecutive_empty_pages' = consecutive_empty_pages + 1
           /\ origin' = origin \o [i \in 1..Len(filtered.new) |-> page]
           /\ new_hist' = Append(new_hist, filtered.new # <<>>)
    /\ fetched' = Append(fetched, page)
    /\ fetch_log' = Append(fetch_log, <<area_idx, page>>)
    /\ events' = EventsAfterPage(events, page, delay)
    /\ page' = PageAfter(page)
    /\ outcome' = "ok"
    /\ UNCHANGED <<area, max_pages, pc, result, pageVars, imageVars, fieldVars,
                   mpc, areas, area_idx, multi_properties, df, delay, restVars>>

\* a mutated handler: the failure discards what was collected
FetchFailsDiscarding(kind) ==
    /\ pc = "loop"
    /\ ~EmptyRule
    /\ ~CeilingReached
    /\ page <= MaxPage
    /\ fetched' = Append(fetched, page)
    /\ fetch_log' = Append(fetch_log, <<area_idx, page>>)
    /\ events' = Append(events, FetchEvent(page))
    /\ outcome' = kind
    /\ pc' = "returned"
    /\ result' = <<>>
    /\ UNCHANGED <<area, max_pages, all_properties, seen_urls, page,
                   consecutive_empty_pages, page_properties, new_properties,
                   new_hist, origin, pageVars, imageVars, fieldVars,
                   mpc, areas, area_idx, multi_properties, df, delay, restVars>>

\* one iteration whose fetch answers a status other than 200, or raises:
\* break (from the try body, or from the except clause), then return
FetchFails(kind) ==
    /\ pc = "loop"
    /\ ~EmptyRule
    /\ ~CeilingReached
    /\ page <= MaxPage
    /\ fetched' = Append(fetched, page)
    /\ fetch_log' = Append(fetch_log, <<area_idx, page>>)
    /\ events' = Append(events, FetchEvent(page))
    /\ outcome' = kind
    /\ pc' = "returned"
    /\ result' = all_properties
    /\ UNCHANGED <<area, max_pages, all_properties, seen_urls, page,
                   consecutive_empty_pages, page_properties, new_properties,
                   new_hist, origin, pageVars, imageVars, fieldVars,
                   mpc, areas, area_idx, multi_properties, df, delay, restVars>>

InitScrape ==
    /\ area \in AreaInputs
    /\ max_pages \in MaxPagesInputs
    /\ pc = "start"
    /\ all_properties = <<>>
    /\ seen_urls = {}
    /\ page = 1
    /\ consecutive_empty_pages = 0
    /\ page_properties = <<>>
    /\ new_properties = <<>>
    /\ result = <<>>
    /\ fetched = <<>>
    /\ new_hist = <<>>
    /\ origin = <<>>
    /\ outcome = "none"

\* an element without images
NoMedia == [imgs |-> <<>>, bgs |-> <<>>, scripts |-> <<>>]

ImagesIdle ==
    /\ ipc = "idle"
    /\ element = NoMedia
    /\ images_out = <<>>
    /\ images_again = <<>>

PageIdle ==
    /\ ppc = "idle"
    /\ soup_in = [k \in 1..Len(Selectors) |-> <<>>]
    /\ page_out = <<>>

FieldsIdle ==
    /\ fpc = "idle"
    /\ fragment = [nodes |-> <<>>, anchors |-> <<>>, media |-> NoMedia]
    /\ extract_images = TRUE
    /\ field_out = None

\* no call of scrape_multiple_areas: scrape_area is called directly
MultiIdle ==
    /\ mpc = "idle"
    /\ areas = <<>>
    /\ area_idx = 0
    /\ multi_properties = <<>>
    /\ df = [rows |-> <<>>, price_per_sqm |-> FALSE]
    /\ fetch_log = <<>>

\* delay_between_requests: float = 1.0
DefaultDelay == 1

\* a scraper constructed without a delay argument, before any fetch
PaceDefault ==
    /\ delay = DefaultDelay
    /\ events = <<>>

JsonIdle ==
    /\ jpc = "idle"
    /\ payload = None
    /\ json_images = <<>>

\* an empty collection and no call of bulk_insert_properties
BulkIdle ==
    /\ stored = <<>>
    /\ bulk_calls = 0
    /\ bulk_ret = None

\* no request to /api/scraper/import
ImportIdle ==
    /\ ipc_req = <<>>
    /\ scraped_properties = <<>>
    /\ req_idx = <<>>
    /\ existing = <<>>
    /\ processed_count = <<>>

RestIdle == JsonIdle /\ BulkIdle /\ ImportIdle

Init == InitScrape /\ PageIdle /\ ImagesIdle /\ FieldsIdle /\ MultiIdle /\ PaceDefault /\ RestIdle

Next ==
    \/ Start
    \/ StopEmptyPages
    \/ StopCeiling
    \/ \E soup \in SoupInputs : FetchAssemble(soup)
    \/ FetchFails("bad_status")
    \/ FetchFails("exception")

Spec == Init /\ [][Next]_vars

-----------------------------------------------------------------------------
(* The page assembler applied to one page: SpecPage *)

\* dicts the field extractor returns: a price or none (a development), a
\* bedroom count or none, with or without a link
ExtractedProps ==
    { Prop(price, bedrooms, Some(85), url) :
        price \in {None, Some(1200000)},
        bedrooms \in {None, Some(2)},
        url \in {"", "https://www.property24.com/for-sale/a"} }

\* what "div[class*=listing]" can match: blocks
DivInputs == {Div(RejectedNode)} \cup {Div(ListingNode(r)) : r \in ExtractedProps}

\* a link inside a listing block that lies inside a longer results block
AnchorDeep ==
    [name |-> "a", node |-> [textlen |-> 12, prop |-> None],
     parents |-> << [textlen |-> 20, prop |-> None],
                    ListingNode(Prop(Some(2500000), Some(3), Some(140),
                                     "https://www.property24.com/for-sale/b")),
                    [textlen |-> 400,
                     prop |-> Some(Prop(Some(990000), Some(1), Some(40), ""))] >>]

\* what the anchor selector can match: a link inside a listing block, a link
\* with no ancestor of 50 characters, a link whose nearest long ancestor is
\* rejected by the field extractor, a link with two long ancestors
AnchorInputs ==
    { AnchorIn(ListingNode(Prop(Some(1200000), Some(2), Some(85),
                                "https://www.property24.com/for-sale/a"))),
      AnchorIn(ListingNode(Prop(None, None, Some(85), ""))),
      AnchorIn(RejectedNode),
      AnchorIn([textlen |-> 3000, prop |-> None]),
      AnchorDeep }

\* a page: the blocks the first selector matches (the fourth matches them too
\* when overlap is set) and the links the last selector matches
PageOf(divs, anchors, overlap) ==
    [k \in 1..Len(Selectors) |->
        IF k = 1 \/ (k = 4 /\ overlap) THEN divs
        ELSE IF k = Len(Selectors) THEN anchors
        ELSE <<>>]

PageInputs ==
    { PageOf(divs, anchors, overlap) :
        divs \in SeqsUpTo(DivInputs, MaxMatches),
        anchors \in SeqsUpTo(AnchorInputs, MaxMatches),
        overlap \in BOOLEAN }

\* the area argument of the assembler in SpecPage
PageArea == <<"c","l","i","f","t","o","n">>

ScrapeIdle ==
    /\ area = PageArea
    /\ max_pages = None
    /\ pc = "idle"
    /\ all_properties = <<>>
    /\ seen_urls = {}
    /\ page = 1
    /\ consecutive_empty_pages = 0
    /\ page_properties = <<>>
    /\ new_properties = <<>>
    /\ result = <<>>
    /\ fetched = <<>>
    /\ new_hist = <<>>
    /\ origin = <<>>
    /\ outcome = "none"

InitPage ==
    /\ ScrapeIdle
    /\ ImagesIdle
    /\ FieldsIdle
    /\ MultiIdle
    /\ PaceDefault
    /\ RestIdle
    /\ ppc = "ready"
    /\ soup_in \in PageInputs
    /\ page_out = <<>>

\* one call of _extract_all_properties_from_page
AssemblePage ==
    /\ ppc = "ready"
    /\ page_out' = ExtractAllPropertiesFromPage(soup_in, area)
    /\ ppc' = "done"
    /\ UNCHANGED <<soup_in, scrapeVars, imageVars, fieldVars, multiVars, paceVars, restVars>>

NextPage == AssemblePage

SpecPage == InitPage /\ [][NextPage]_vars

\* C3: the list the page assembler returns holds no two records with the same
\* (price, bedrooms, size_sqm) key, an absent field counting as a value.
C3_PageKeysDistinct ==
    ppc = "done" =>
        \A i, j \in 1..Len(page_out) : i < j => Key(page_out[i]) # Key(page_out[j])

\* a page on which more elements gave a record than the assembler kept, two
\* records were kept, one of them has no price, and a dropped record differs
\* (by its url) from every record kept
C3_Witness ==
    /\ ppc = "done"
    /\ AcceptedCount(soup_in) > Len(page_out)
    /\ Len(page_out) >= 2
    /\ \E i \in 1..Len(page_out) : page_out[i].price = None
    /\ \E k \in 1..Len(soup_in) : \E n \in 1..Len(soup_in[k]) :
          LET c == Container(soup_in[k][n])
          IN  /\ c # None
              /\ c[1].prop # None
              /\ \A i \in 1..Len(page_out) : page_out[i].url # c[1].prop[1].url


\* the matched elements of the page as (selector index, index in the match list)
Positions ==
    {p \in (1..Len(Selectors)) \X (1..MaxMatches) : p[2] <= Len(soup_in[p[1]])}

\* selector priority first, document order within a selector
Before(p, q) == p[1] < q[1] \/ (p[1] = q[1] /\ p[2] < q[2])

\* the record the field extractor gives for the element at a position, if any
RecordAt(p) ==
    LET c == Container(soup_in[p[1]][p[2]])
    IN  IF c = None THEN None ELSE ExtractPropertyDataEnhanced(c[1])

\* positions whose record no earlier position has claimed the key of
KeptPositions ==
    {p \in Positions :
        /\ RecordAt(p) # None
        /\ \A q \in Positions :
              (Before(q, p) /\ RecordAt(q) # None)
                  => Key(RecordAt(q)[1]) # Key(RecordAt(p)[1])}

KeptRank(p) == Cardinality({q \in KeptPositions : q = p \/ Before(q, p)})

\* C14: the assembler returns, in selector priority order and within a selector
\* in document order, the record of every matched element of every selector
\* whose (price, bedrooms, size_sqm) key no earlier element had, each with the
\* caller's area and the selector that found it first as selector_used.
C14_AssemblerOutput ==
    ppc = "done" =>
        /\ Len(page_out) = Cardinality(KeptPositions)
        /\ \A p \in KeptPositions :
              LET rec == page_out[KeptRank(p)]
                  prop == RecordAt(p)[1]
              IN  /\ rec.price = prop.price
                  /\ rec.bedrooms = prop.bedrooms
                  /\ rec.size_sqm = prop.size_sqm
                  /\ rec.url = prop.url
                  /\ rec.area = area
                  /\ rec.selector_used = Selectors[p[1]]

\* a page where a later selector re-matches records of the first (dropped) and
\* the last selector contributes a record of its own after them
C14_Witness ==
    /\ ppc = "done"
    /\ Len(soup_in[1]) > 0 /\ soup_in[4] = soup_in[1]
    /\ Len(page_out) >= 2
    /\ page_out[1].selector_used = Selectors[1]
    /\ page_out[Len(page_out)].selector_used = Selectors[Len(Selectors)]
    /\ \A i \in 1..Len(page_out) : page_out[i].area = PageArea

-----------------------------------------------------------------------------
(* The image resolver: extract_property_images and _extract_images_from_json *)
(*                                                                         *)
(* A string is a sequence of pieces; a piece is never split by a test, so  *)
(* startswith() looks at the first piece and "in" at every piece.  A       *)
(* decoded JSON value is a record with its type t: "str" (s: the string),  *)
(* "num" (n), "null", "arr" (items) or "obj" (kv: the <<key, value>> pairs *)
(* in document order).  The images list holds such values, since the walk  *)
(* appends whatever item['url'] is.  A missing attribute and an empty one  *)
(* are both the empty string (both are falsy where they are read).         *)

JStr(str) == [t |-> "str", s |-> str, n |-> 0, items |-> <<>>, kv |-> <<>>]
JNum(num) == [t |-> "num", s |-> <<>>, n |-> num, items |-> <<>>, kv |-> <<>>]
JNull == [t |-> "null", s |-> <<>>, n |-> 0, items |-> <<>>, kv |-> <<>>]
JArr(items) == [t |-> "arr", s |-> <<>>, n |-> 0, items |-> items, kv |-> <<>>]
JObj(kv) == [t |-> "obj", s |-> <<>>, n |-> 0, items |-> <<>>, kv |-> kv]

\* the searched substrings each piece contains
PieceHas(piece, pattern) ==
    \/ piece = pattern
    \/ piece = "property24" /\ pattern = "property"

\* pattern in str
Contains(str, pattern) == \E i \in 1..Len(str) : PieceHas(str[i], pattern)

\* str.startswith('http')
StartsWithHttp(str) == str # <<>> /\ str[1] \in {"http://", "https://", "https:"}

\* str.startswith('//')
StartsWithSlashes(str) == str # <<>> /\ str[1] = "//"

\* "Ensure full URL": 'https:' + url, or 'https://www.property24.com' + url
FullUrl(img_url) ==
    IF StartsWithHttp(img_url) THEN img_url
    ELSE IF StartsWithSlashes(img_url) THEN <<"https:">> \o img_url
    ELSE <<"https://", "www.", "property24", ".com">> \o img_url

\* Method 1, one img tag: the images list after it
ImgTagStep(images, img) ==
    IF img.icon THEN images
    ELSE LET img_url == IF img.data_src # <<>> THEN img.data_src ELSE img.src
         IN  IF img_url = <<>> THEN images
             ELSE IF Contains(img_url, "data:image") \/ Contains(img_url, "placeholder")
             THEN images
             ELSE IF \E pattern \in {"property24", "listing", "property", "p24"} :
                        Contains(FullUrl(img_url), pattern)
             THEN Append(images, JStr(FullUrl(img_url)))
             ELSE images

\* Method 2, one element with a background-image style; bg.url is what the
\* url(...) pattern captured, empty when it did not match
BgStep(images, bg) ==
    IF bg.url = <<>> THEN images
    ELSE IF Contains(FullUrl(bg.url), "property") \/ Contains(FullUrl(bg.url), "listing")
    THEN Append(images, JStr(FullUrl(bg.url)))
    ELSE images

\* the keys under which the walk collects
ImageKeys == {"images", "gallery", "photos", "imageUrl", "image"}

\* the deepest level the walk works at
MaxJsonDepth == 5

\* 'url' in item
HasKey(obj, key) == \E i \in 1..Len(obj.kv) : obj.kv[i][1] = key

\* item['url'] (the last pair wins in a decoded object)
GetKey(obj, key) ==
    obj.kv[CHOOSE i \in 1..Len(obj.kv) :
              /\ obj.kv[i][1] = key
              /\ \A j \in (i + 1)..Len(obj.kv) : obj.kv[j][1] # key][2]

\* "for item in value" under an image key
RECURSIVE CollectList(_, _, _)
CollectList(items, i, images) ==
    IF i > Len(items) THEN images
    ELSE LET item == items[i]
         IN  IF item.t = "str" /\ StartsWithHttp(item.s)
             THEN CollectList(items, i + 1, Append(images, item))
             ELSE IF item.t = "obj" /\ HasKey(item, "url")
             THEN CollectList(items, i + 1, Append(images, GetKey(item, "url")))
             ELSE CollectList(items, i + 1, images)

\* a walk without the depth test
TooDeepNever(depth) == FALSE

\* "if depth > 5: return"
TooDeep(depth) == depth > MaxJsonDepth

\* _extract_images_from_json(data, images, depth): the images list after it
RECURSIVE ExtractImagesFromJson(_, _, _), WalkItems(_, _, _, _), WalkList(_, _, _, _)
ExtractImagesFromJson(data, images, depth) ==
    IF TooDeep(depth) THEN images
    ELSE IF data.t = "obj" THEN WalkItems(data.kv, 1, images, depth)
    ELSE IF data.t = "arr" THEN WalkList(data.items, 1, images, depth)
    ELSE images

\* "for key, value in data.items()"
WalkItems(kv, i, images, depth) ==
    IF i > Len(kv) THEN images
    ELSE LET key == kv[i][1]
             value == kv[i][2]
         IN  IF key \in ImageKeys
             THEN IF value.t = "arr"
                  THEN WalkItems(kv, i + 1, CollectList(value.items, 1, images), depth)
                  ELSE WalkItems(kv, i + 1, images, depth)
             ELSE IF value.t \in {"obj", "arr"}
             THEN WalkItems(kv, i + 1, ExtractImagesFromJson(value, images, depth + 1), depth)
             ELSE WalkItems(kv, i + 1, images, depth)

\* "for item in data" when data is a list
WalkList(items, i, images, depth) ==
    IF i > Len(items) THEN images
    ELSE IF items[i].t = "obj"
    THEN WalkList(items, i + 1, ExtractImagesFromJson(items[i], images, depth + 1), depth)
    ELSE WalkList(items, i + 1, images, depth)

\* Method 3, one script block; script is None when json.loads raises
ScriptStep(images, script) ==
    IF script = None THEN images
    ELSE IF script[1].t = "obj" THEN ExtractImagesFromJson(script[1], images, 0)
    ELSE images

RECURSIVE FoldImgs(_, _, _), FoldBgs(_, _, _), FoldScripts(_, _, _)
FoldImgs(images, imgs, i) ==
    IF i > Len(imgs) THEN images ELSE FoldImgs(ImgTagStep(images, imgs[i]), imgs, i + 1)
FoldBgs(images, bgs, i) ==
    IF i > Len(bgs) THEN images ELSE FoldBgs(BgStep(images, bgs[i]), bgs, i + 1)
FoldScripts(images, scripts, i) ==
    IF i > Len(scripts) THEN images
    ELSE FoldScripts(ScriptStep(images, scripts[i]), scripts, i + 1)

\* the images list when the three methods are through
CollectedImages(el) ==
    FoldScripts(FoldBgs(FoldImgs(<<>>, el.imgs, 1), el.bgs, 1), el.scripts, 1)

\* lists and dicts cannot be put into the set seen: TypeError
Unhashable(v) == v.t \in {"arr", "obj"}

\* a mutated loop: nothing is looked up in seen
RemoveDuplicatesNot(images, i, unique_images) == images

\* "Remove duplicates while preserving order"
RECURSIVE RemoveDuplicates(_, _, _)
RemoveDuplicates(images, i, unique_images) ==
    IF i > Len(images) THEN unique_images
    ELSE IF images[i] \in Range(unique_images)
    THEN RemoveDuplicates(images, i + 1, unique_images)
    ELSE RemoveDuplicates(images, i + 1, Append(unique_images, images[i]))

\* "Limit to 5 images per property"
ImageLimit == 5

\* unique_images[:5]
Truncate(list) == SubSeq(list, 1, IF Len(list) < ImageLimit THEN Len(list) ELSE ImageLimit)

\* extract_property_images(element); the except clause returns [] when the
\* dedup loop meets an unhashable value
ExtractPropertyImages(el) ==
    LET images == CollectedImages(el)
    IN  IF \E i \in 1..Len(images) : Unhashable(images[i]) THEN <<>>
        ELSE Truncate(RemoveDuplicates(images, 1, <<>>))

-----------------------------------------------------------------------------
(* The image resolver applied to one element: SpecImages *)

Img(icon, data_src, src) == [icon |-> icon, data_src |-> data_src, src |-> src]
Bg(url) == [url |-> url]

ListingJpg == <<"http://", "cdn/", "listing", "/1.jpg">>
TileJpg == <<"//", "img.", "p24", "/2.jpg">>
RelativeJpg == <<"/", "pics/3.jpg">>
AdGif == <<"http://", "ads/", "4.gif">>

\* img tags: a lazy-loaded listing image, a protocol-relative one, a relative
\* data-src before an absolute src, an icon, an unrelated image
ImgInputs ==
    { Img(FALSE, ListingJpg, <<>>),
      Img(FALSE, <<>>, TileJpg),
      Img(FALSE, RelativeJpg, ListingJpg),
      Img(TRUE, <<>>, ListingJpg),
      Img(FALSE, <<>>, <<"data:image", "/png;base64">>) }

\* styled elements: an absolute property image, no url(...), an unrelated image
BgInputs ==
    { Bg(<<"http://", "cdn/", "property", "/5.jpg">>),
      Bg(<<>>),
      Bg(AdGif) }

\* script blocks: undecodable text, and decoded payloads
ScriptInputs ==
    { None,
      Some(JObj(<< <<"images", JArr(<< JStr(<<"http://", "g/7.jpg">>),
                                       JStr(<<"http://", "g/8.jpg">>),
                                       JStr(ListingJpg),
                                       JStr(<<"https://", "g/9.jpg">>) >>)>> >>)),
      Some(JObj(<< <<"gallery", JArr(<< JObj(<< <<"url", JStr(<<"https://", "g/9.jpg">>)>> >>),
                                        JObj(<< <<"url", JStr(RelativeJpg)>> >>) >>)>> >>)),
      Some(JObj(<< <<"photos", JArr(<< JObj(<< <<"url", JNum(7)>> >>),
                                       JObj(<< <<"url", JNull>> >>),
                                       JStr(RelativeJpg) >>)>> >>)),
      Some(JObj(<< <<"listing", JObj(<< <<"id", JNum(7)>>,
                                        <<"image", JArr(<< JStr(AdGif) >>)>> >>)>> >>)),
      Some(JObj(<< <<"image", JArr(<< JObj(<< <<"url", JObj(<< <<"src", JStr(AdGif)>> >>)>> >>) >>)>> >>)),
      Some(JObj(<< <<"imageUrl", JStr(AdGif)>> >>)),
      Some(JArr(<< JObj(<< <<"images", JArr(<< JStr(AdGif) >>)>> >>) >>)) }

ElementInputs ==
    [imgs : SeqsUpTo(ImgInputs, MaxImgs),
     bgs : SeqsUpTo(BgInputs, MaxBgs),
     scripts : SeqsUpTo(ScriptInputs, MaxScripts)]

InitImages ==
    /\ ScrapeIdle
    /\ PageIdle
    /\ FieldsIdle
    /\ MultiIdle
    /\ PaceDefault
    /\ RestIdle
    /\ ipc = "ready"
    /\ element \in ElementInputs
    /\ images_out = <<>>
    /\ images_again = <<>>

\* a mutated resolver: the script blocks are taken out of the element
ElementAfterResolveConsumed(el) == [el EXCEPT !.scripts = <<>>]

\* the element after a call: find_all, get and .string only read it
ElementAfterResolve(el) == el

\* one call of extract_property_images
ResolveImages ==
    /\ ipc = "ready"
    /\ images_out' = ExtractPropertyImages(element)
    /\ element' = ElementAfterResolve(element)
    /\ ipc' = "done"
    /\ UNCHANGED <<images_again, scrapeVars, pageVars, fieldVars, multiVars, paceVars, restVars>>

\* a second call on the same element
ResolveAgain ==
    /\ ipc = "done"
    /\ images_again' = ExtractPropertyImages(element)
    /\ element' = ElementAfterResolve(element)
    /\ ipc' = "again"
    /\ UNCHANGED <<images_out, scrapeVars, pageVars, fieldVars, multiVars, paceVars, restVars>>

NextImages == ResolveImages \/ ResolveAgain

SpecImages == InitImages /\ [][NextImages]_vars

\* C9: the list the image resolver returns has at most 5 elements and holds
\* no value twice.
C9_AtMostFiveDistinct ==
    ipc = "done" =>
        /\ Len(images_out) <= 5
        /\ \A i, j \in 1..Len(images_out) : i < j => images_out[i] # images_out[j]

\* more than five values were collected, one of them twice, and five returned
C9_Witness ==
    /\ ipc = "done"
    /\ Len(CollectedImages(element)) > 6
    /\ Cardinality(Range(CollectedImages(element))) < Len(CollectedImages(element))
    /\ Len(images_out) = 5

\* C10 as stated: every element of the returned list is a string that begins
\* with http, also for JSON list entries that are objects with a url field.
C10_Claim ==
    ipc = "done" =>
        \A i \in 1..Len(images_out) :
            images_out[i].t = "str" /\ StartsWithHttp(images_out[i].s)
\* what the tag-attribute and the inline-style method collected
TagAndStyleImages(el) == FoldBgs(FoldImgs(<<>>, el.imgs, 1), el.bgs, 1)

\* a list without the later repetitions of a value
FirstOccurrences(list) ==
    LET keep == {i \in 1..Len(list) : \A j \in 1..(i - 1) : list[j] # list[i]}
        Rank(i) == Cardinality({j \in keep : j <= i})
    IN  [r \in 1..Cardinality(keep) |-> list[CHOOSE i \in keep : Rank(i) = r]]

\* the first five elements of a list
FirstFive(list) == [i \in 1..(IF Len(list) < 5 THEN Len(list) ELSE 5) |-> list[i]]

IsPrefix(short, long) ==
    /\ Len(short) <= Len(long)
    /\ \A i \in 1..Len(short) : short[i] = long[i]

\* C11 as stated: the resolver never raises, and an entry of an embedded JSON
\* payload that cannot be used costs only that entry: the images the tag and
\* style methods found (without repetitions, up to five) are still returned.
C11_Claim ==
    ipc = "done" => IsPrefix(FirstFive(FirstOccurrences(TagAndStyleImages(element))),
                             images_out)

\* C15 as stated: the returned list is the first five elements of the tag
\* results, then the style results, then the embedded-data results, with every
\* later repetition of a value removed.
C15_Claim ==
    ipc = "done" => images_out = FirstFive(FirstOccurrences(CollectedImages(element)))

-----------------------------------------------------------------------------
(* Properties of scrape_area, checked under Spec *)

HasUrl(prop) == prop.url # ""
UrlLess(prop) == prop.url = ""
FetchFailures == {"bad_status", "exception"}

UrlsPairwiseDistinct(props) ==
    \A i, j \in 1..Len(props) :
        (i < j /\ HasUrl(props[i])) => props[i].url # props[j].url

\* C1: in a run of scrape_area no two records of the accumulated list, and no
\* two records of the returned list, have the same non-empty url, whether they
\* come from one page or from two.
C1_UrlsDistinct ==
    /\ UrlsPairwiseDistinct(all_properties)
    /\ pc = "returned" => UrlsPairwiseDistinct(result)

\* a run that returned after at least two pages, the last of which carried the
\* same url on two records with different keys; the url was filtered
C1_Witness ==
    /\ pc = "returned"
    /\ Len(new_hist) >= 2
    /\ \E i, j \in 1..Len(page_properties) :
          /\ i < j
          /\ HasUrl(page_properties[i])
          /\ page_properties[i].url = page_properties[j].url
    /\ Len(new_properties) < Len(page_properties)
    /\ \E i \in 1..Len(result) : HasUrl(result[i])

\* C2 as stated: no two returned records share the (price, bedrooms, size_sqm)
\* tuple unless both have an absent url, on one page or across pages.
C2_Original ==
    pc = "returned" =>
        \A i, j \in 1..Len(result) :
            (i < j /\ Key(result[i]) = Key(result[j]))
                => (UrlLess(result[i]) /\ UrlLess(result[j]))

\* C2 amended: two returned records that share the (price, bedrooms, size_sqm)
\* tuple never come from the same page, and never carry the same non-empty url.
C2_SameKeyOnlyAcrossPages ==
    /\ Len(origin) = Len(all_properties)
    /\ \A i, j \in 1..Len(all_properties) :
          (i < j /\ Key(all_properties[i]) = Key(all_properties[j]))
              => /\ origin[i] # origin[j]
                 /\ ~(HasUrl(all_properties[i])
                      /\ all_properties[i].url = all_properties[j].url)
    /\ (pc = "returned" /\ outcome # "unknown_area") => result = all_properties

\* a returned list with the same tuple on two records that both carry a url
C2_Witness ==
    /\ pc = "returned"
    /\ \E i, j \in 1..Len(result) :
          /\ i < j
          /\ Key(result[i]) = Key(result[j])
          /\ HasUrl(result[i]) /\ HasUrl(result[j])
          /\ origin[i] # origin[j]

\* the two most recently assembled pages contributed no record
LastTwoEmpty ==
    /\ Len(new_hist) >= 2
    /\ ~new_hist[Len(new_hist)]
    /\ ~new_hist[Len(new_hist) - 1]

\* number of pages without a new record at the end of the history
RECURSIVE TrailingEmpty(_)
TrailingEmpty(h) ==
    IF h = <<>> \/ h[Len(h)] THEN 0
    ELSE 1 + TrailingEmpty(SubSeq(h, 1, Len(h) - 1))

\* C4: the run stops by the empty-page rule exactly when the two most recently
\* assembled pages contributed no new record; after two such pages no fetch is
\* made, whatever the ceiling; the counter is the number of such pages at the
\* end of the run so far, so one such page followed by a page with a new
\* record sets it back to zero and does not stop the run.
C4_EmptyPageRule ==
    /\ [](/\ (pc = "returned" /\ outcome = "empty_rule") => LastTwoEmpty
          /\ (pc = "returned" /\ LastTwoEmpty) => outcome = "empty_rule"
          /\ consecutive_empty_pages = TrailingEmpty(new_hist))
    /\ [][LastTwoEmpty => fetched' = fetched]_vars
    /\ [][(pc = "loop" /\ ~LastTwoEmpty) => outcome' # "empty_rule"]_vars

\* page 1 gave records, pages 2 and 3 only what was seen, and the run stopped
\* although no ceiling was in force
C4_Witness ==
    /\ pc = "returned"
    /\ outcome = "empty_rule"
    /\ max_pages = None
    /\ new_hist = <<TRUE, FALSE, FALSE>>
    /\ page_properties # <<>>

\* C5 as stated: for every ceiling c >= 0 no page above c is fetched, so at
\* most c fetches are made.
C5_Claim ==
    max_pages # None =>
        /\ \A i \in 1..Len(fetched) : fetched[i] <= max_pages[1]
        /\ Len(fetched) <= max_pages[1]

\* C6: a fetch that answers a status other than 200, or raises, ends the run:
\* scrape_area returns (it does not raise) the list accumulated before that
\* fetch, unchanged, and fetches nothing more.
C6_FailureKeepsRecords ==
    /\ [](/\ pc \in {"start", "loop", "returned"}
          /\ outcome \in FetchFailures =>
                /\ pc = "returned"
                /\ result = all_properties
                /\ fetched # <<>> /\ fetched[Len(fetched)] = page)
    /\ [][(outcome' \in FetchFailures /\ outcome \notin FetchFailures) =>
            /\ all_properties' = all_properties
            /\ origin' = origin
            /\ result' = all_properties]_vars
    /\ [][(outcome \in FetchFailures) => fetched' = fetched]_vars

\* the third fetch raised after two pages had given records
C6_Witness ==
    /\ pc = "returned"
    /\ outcome = "exception"
    /\ Len(fetched) = 3
    /\ Len(result) >= 3
    /\ \E i, j \in 1..Len(result) : origin[i] # origin[j]

\* C7: an area whose normalised name has no configured code gives the empty
\* list, and nothing is fetched.
C7_UnknownArea ==
    (pc # "start" /\ AreaCodeGet(NormalizeArea(area)) = None) =>
        /\ pc = "returned"
        /\ result = <<>>
        /\ fetched = <<>>
        /\ outcome = "unknown_area"

\* "camps_bai" is normalised to "camps-bai", which is not in the table
C7_Witness ==
    /\ pc = "returned"
    /\ outcome = "unknown_area"
    /\ NormalizeArea(area) = <<"c","a","m","p","s","-","b","a","i">>
    /\ result = <<>>

\* C8: every record without a url that the page assembler returns for a
\* fetched page is appended to the accumulated list, in order, whatever the
\* earlier pages gave; the accumulated list only grows and is what is returned.
C8_UrlLessKept ==
    /\ [][fetched' # fetched /\ outcome' = "ok" =>
            LET added == SubSeq(all_properties', Len(all_properties) + 1,
                                Len(all_properties'))
            IN  /\ SubSeq(all_properties', 1, Len(all_properties)) = all_properties
                /\ SelectSeq(page_properties', UrlLess) = SelectSeq(added, UrlLess)]_vars
    /\ []((pc = "returned" /\ outcome # "unknown_area") => result = all_properties)
    /\ [][Len(all_properties') >= Len(all_properties)]_vars

\* the same url-less record was returned by two pages and is twice in the result
C8_Witness ==
    /\ pc = "returned"
    /\ \E i, j \in 1..Len(result) :
          /\ i < j
          /\ UrlLess(result[i])
          /\ result[i] = result[j]
          /\ origin[i] # origin[j]
    /\ \E k \in 1..Len(page_properties) : UrlLess(page_properties[k])

-----------------------------------------------------------------------------
(* The field extractor: _extract_property_data_enhanced on the text of a     *)
(* fragment. A text is a sequence of characters; the two characters that     *)
(* cannot be written in a module are named.                                  *)

\* U+00A0, the no-break space
NBSP == "nbsp"
\* U+00B2, the superscript two
SUP2 == "^2"

DigitChars == <<"0","1","2","3","4","5","6","7","8","9">>
DigitSet == Range(DigitChars)
\* what \s matches in a str pattern
SpaceSet == {" ", "\n", "\t", NBSP}

DigitVal(c) == (CHOOSE i \in 1..Len(DigitChars) : DigitChars[i] = c) - 1

\* int(s) for a string of decimal digits
RECURSIVE IntOf(_)
IntOf(digs) ==
    IF Len(digs) = 0 THEN 0
    ELSE IntOf(SubSeq(digs, 1, Len(digs) - 1)) * 10 + DigitVal(digs[Len(digs)])

\* str(n) for n >= 0
RECURSIVE StrOf(_)
StrOf(n) ==
    IF n < 10 THEN <<DigitChars[n + 1]>>
    ELSE Append(StrOf(n \div 10), DigitChars[(n % 10) + 1])

\* element.get_text(separator=' ', strip=True): the stripped text nodes of the
\* fragment joined by one space
RECURSIVE GetText(_)
GetText(nodes) ==
    IF Len(nodes) = 0 THEN <<>>
    ELSE IF Len(nodes) = 1 THEN nodes[1]
    ELSE nodes[1] \o <<" ">> \o GetText(Tail(nodes))

\* the first position from i on whose character is not in the class
\* (a greedy C* of a pattern ends before it); Len(text) + 1 at the end
SkipWhile(text, i, class) ==
    CHOOSE j \in i..(Len(text) + 1) :
        /\ j = Len(text) + 1 \/ text[j] \notin class
        /\ \A k \in i..(j - 1) : text[k] \in class

\* a sequence of character classes matches at position s
MatchesAt(text, s, classes) ==
    \A k \in 1..Len(classes) :
        s + k - 1 <= Len(text) /\ text[s + k - 1] \in classes[k]

\* word in text
InText(word, text) ==
    \E i \in 1..(Len(text) - Len(word) + 1) :
        \A k \in 1..Len(word) : text[i + k - 1] = word[k]

\* one (?:[\s,]*\d{3}) at position p: the position after it, 0 if it fails
GroupEnd(text, p) ==
    LET q == SkipWhile(text, p, SpaceSet \cup {","})
    IN  IF MatchesAt(text, q, <<DigitSet, DigitSet, DigitSet>>) THEN q + 3 ELSE 0

\* (?:[\s,]*\d{3})+ taken greedily from p, which one group is known to match
RECURSIVE GroupsEnd(_, _)
GroupsEnd(text, p) ==
    IF GroupEnd(text, p) = 0 THEN p ELSE GroupsEnd(text, GroupEnd(text, p))

\* the lengths \d{1,3} can take at d0 so that a group follows
LeadLengths(text, d0) ==
    {d \in 1..3 : /\ \A k \in 0..(d - 1) : d0 + k <= Len(text) /\ text[d0 + k] \in DigitSet
                  /\ GroupEnd(text, d0 + d) # 0}

\* R\s*(\d{1,3}(?:[\s,]*\d{3})+) matches with its R at position i
PriceMatchesAt(text, i) ==
    /\ text[i] = "R"
    /\ LeadLengths(text, SkipWhile(text, i + 1, SpaceSet)) # {}

\* re.search(r'R\s*(\d{1,3}(?:[\s,]*\d{3})+)', text).group(1), None without match
PriceGroup(text) ==
    IF \E i \in 1..Len(text) : PriceMatchesAt(text, i)
    THEN LET i == CHOOSE i \in 1..Len(text) :
                      /\ PriceMatchesAt(text, i)
                      /\ \A h \in 1..(i - 1) : ~PriceMatchesAt(text, h)
             d0 == SkipWhile(text, i + 1, SpaceSet)
             d == CHOOSE d \in LeadLengths(text, d0) :
                      \A e \in LeadLengths(text, d0) : e <= d
         IN  Some(SubSeq(text, d0, GroupsEnd(text, d0 + d) - 1))
    ELSE None

\* s.replace(',', '').replace(' ', '')
RECURSIVE StripSeparators(_)
StripSeparators(s) ==
    IF Len(s) = 0 THEN <<>>
    ELSE IF s[1] \in {",", " "} THEN StripSeparators(Tail(s))
    ELSE <<s[1]>> \o StripSeparators(Tail(s))

\* int(price_str) inside try/except: None when int() raises ValueError
PriceInt(group) ==
    LET price_str == StripSeparators(group)
    IN  IF \A k \in 1..Len(price_str) : price_str[k] \in DigitSet
        THEN Some(IntOf(price_str)) ELSE None

\* re.search(r'(\d+)\s*<unit>', text).group(1) as an int, None without match
NumberBefore(text, unit) ==
    LET At(i) == /\ text[i] \in DigitSet
                 /\ MatchesAt(text,
                              SkipWhile(text, SkipWhile(text, i, DigitSet), SpaceSet),
                              unit)
    IN  IF \E i \in 1..Len(text) : At(i)
        THEN LET i == CHOOSE i \in 1..Len(text) : At(i) /\ \A h \in 1..(i - 1) : ~At(h)
             IN  Some(IntOf(SubSeq(text, i, SkipWhile(text, i, DigitSet) - 1)))
        ELSE None

BedUnit == <<{"B", "b"}, {"e"}, {"d"}>>
BathUnit == <<{"B", "b"}, {"a"}, {"t"}, {"h"}>>
\* m[²2] under re.IGNORECASE
SizeUnit == <<{"m", "M"}, {SUP2, "2"}>>

\* the keywords the extractor looks for in text.lower()
KwDevelopment == <<"d","e","v","e","l","o","p","m","e","n","t">>
KwApartment == <<"a","p","a","r","t","m","e","n","t">>
KwFlat == <<"f","l","a","t">>
KwHouse == <<"h","o","u","s","e">>
KwTownhouse == <<"t","o","w","n","h","o","u","s","e">>
KwWalkingDistance == <<"w","a","l","k","i","n","g"," ","d","i","s","t","a","n","c","e">>

\* the values of the type field
TypeDevelopment == <<"D","e","v","e","l","o","p","m","e","n","t">>
TypeApartment == <<"A","p","a","r","t","m","e","n","t">>
TypeHouse == <<"H","o","u","s","e">>
TypeTownhouse == <<"T","o","w","n","h","o","u","s","e">>
TypeProperty == <<"P","r","o","p","e","r","t","y">>

\* the limits of the length gate
MinTextLength == 30
MaxTextLength == 2000

\* a mutated gate: both limits are themselves rejected
LengthGateStrict(text) == Len(text) <= MinTextLength \/ Len(text) >= MaxTextLength

\* "Skip if too short or too long"
LengthGate(text) == Len(text) < MinTextLength \/ Len(text) > MaxTextLength

\* the price step: "reject", or the price and the type tag set so far
PriceStep(text) ==
    LET group == PriceGroup(text)
    IN  IF group # None
        THEN [reject |-> FALSE, price |-> PriceInt(group[1]), tag |-> None]
        ELSE IF InText(KwDevelopment, Lower(text))
        THEN [reject |-> FALSE, price |-> None, tag |-> Some(TypeDevelopment)]
        ELSE [reject |-> TRUE, price |-> None, tag |-> None]

\* the property type step, tag being the type the price step may have set
TypeStep(text_lower, tag) ==
    IF InText(KwApartment, text_lower) \/ InText(KwFlat, text_lower) THEN TypeApartment
    ELSE IF InText(KwHouse, text_lower) THEN TypeHouse
    ELSE IF InText(KwTownhouse, text_lower) THEN TypeTownhouse
    ELSE IF tag # None THEN tag[1]
    ELSE TypeProperty

\* element.find('a', href=True): the first anchor that has an href
FirstAnchor(anchors) ==
    IF \E i \in 1..Len(anchors) : anchors[i] # None
    THEN Some(anchors[CHOOSE i \in 1..Len(anchors) :
                 anchors[i] # None /\ \A h \in 1..(i - 1) : anchors[h] = None][1])
    ELSE None

\* the url step
UrlStep(anchors) ==
    LET link == FirstAnchor(anchors)
    IN  IF link # None /\ Contains(link[1], "/for-sale/")
        THEN Some(IF StartsWithHttp(link[1]) THEN link[1]
                  ELSE <<"https://", "www.", "property24", ".com">> \o link[1])
        ELSE None

\* word1[\s-]?word2 found in the text
InTextJoined(word1, word2, text) ==
    \/ InText(word1 \o word2, text)
    \/ \E sep \in SpaceSet \cup {"-"} : InText(word1 \o <<sep>> \o word2, text)

\* feature_patterns, in order: does the pattern match, and the feature it gives
FeatureFound(text_lower) ==
    << InText(<<"p","o","o","l">>, text_lower),
       InText(<<"g","a","r","a","g","e">>, text_lower)
          \/ InText(<<"p","a","r","k","i","n","g">>, text_lower),
       InText(<<"g","a","r","d","e","n">>, text_lower),
       InText(<<"s","e","c","u","r","i","t","y">>, text_lower),
       InText(<<"b","a","l","c","o","n","y">>, text_lower),
       InTextJoined(<<"p","e","t">>, <<"f","r","i","e","n","d","l","y">>, text_lower),
       InText(<<"f","u","r","n","i","s","h","e","d">>, text_lower),
       InTextJoined(<<"s","e","a">>, <<"v","i","e","w">>, text_lower)
          \/ InTextJoined(<<"o","c","e","a","n">>, <<"v","i","e","w">>, text_lower),
       InTextJoined(<<"m","o","u","n","t","a","i","n">>, <<"v","i","e","w">>, text_lower) >>

FeatureNames ==
    <<"Pool", "Parking", "Garden", "Security", "Balcony", "Pet Friendly",
      "Furnished", "Sea Views", "Mountain Views">>

\* the features list after the loop over feature_patterns
RECURSIVE Features(_, _)
Features(found, k) ==
    IF k > Len(FeatureNames) THEN <<>>
    ELSE (IF found[k] THEN <<FeatureNames[k]>> ELSE <<>>) \o Features(found, k + 1)

\* "Create title": property_data.get('bedrooms') is falsy for None and for 0
TitleStep(bedrooms, type) ==
    IF bedrooms # None /\ bedrooms[1] # 0
    THEN StrOf(bedrooms[1]) \o <<" ","B","e","d","r","o","o","m"," ">> \o type
    ELSE type

\* _extract_property_data_enhanced(element, extract_images): None, or the
\* record; a key the dict does not hold is None (a list: empty)
ExtractFields(frag, flag) ==
    LET text == GetText(frag.nodes)
        text_lower == Lower(text)
        priced == PriceStep(text)
        bedrooms == NumberBefore(text, BedUnit)
        type == TypeStep(text_lower, priced.tag)
    IN  IF LengthGate(text) THEN None
        ELSE IF priced.reject THEN None
        ELSE Some([price |-> priced.price,
                   bedrooms |-> bedrooms,
                   bathrooms |-> NumberBefore(text, BathUnit),
                   size_sqm |-> NumberBefore(text, SizeUnit),
                   type |-> type,
                   url |-> UrlStep(frag.anchors),
                   images |-> IF flag THEN ExtractPropertyImages(frag.media) ELSE <<>>,
                   highlights |-> Features(FeatureFound(text_lower), 1),
                   title |-> TitleStep(bedrooms, type),
                   neighborhood_vibe |-> InText(KwWalkingDistance, text_lower)])

-----------------------------------------------------------------------------
(* SpecFields: one call of the field extractor on one fragment *)

\* the text nodes fragments are put together from
NodePrice == <<"R"," ","1"," ","2","5","0"," ","0","0","0">>
NodePriceNbsp == <<"R"," ","1",NBSP,"2","5","0",NBSP,"0","0","0">>
NodeBeds == <<"2"," ","B","e","d">>
NodeNoBeds == <<"0"," ","B","e","d">>
NodeBaths == <<"1"," ","B","a","t","h">>
NodeSize == <<"8","5","m",SUP2>>
NodeBigSize == <<"1","2","0","m",SUP2>>
NodeFeatures == <<"P","o","o","l"," ","S","e","c","u","r","i","t","y">>
NodeNewDevelopment == <<"N","e","w"," ","d","e","v","e","l","o","p","m","e","n","t">>
NodeApartments == <<"l","u","x","u","r","y"," ","a","p","a","r","t","m","e","n","t","s">>
NodeTownhouse == <<"T","o","w","n","h","o","u","s","e">>
NodeHouse == <<"f","a","m","i","l","y"," ","h","o","u","s","e">>

\* the price line of a listing: none, grouped by spaces, grouped by no-break spaces
PriceParts == {<<>>, <<NodePrice>>, <<NodePriceNbsp>>}

\* what follows the price line
DetailParts ==
    {<<>>, <<NodeBeds, NodeBaths, NodeSize>>, <<NodeBigSize, NodeBeds>>, <<NodeNoBeds>>}

\* the description
KeywordParts ==
    {<<>>, <<NodeFeatures>>, <<NodeNewDevelopment>>,
     <<NodeNewDevelopment, NodeApartments>>, <<NodeTownhouse>>, <<NodeHouse>>}

\* text lengths fragments are filled up to: both sides of both limits of the gate
FillLengths == {29, 30, 2000, 2001}

\* a last text node of filler that brings the text to the length, where one fits
Filled(nodes, length) ==
    LET have == Len(GetText(nodes))
    IN  IF nodes = <<>> THEN <<[i \in 1..length |-> "x"]>>
        ELSE IF have + 2 <= length
        THEN Append(nodes, [i \in 1..(length - have - 1) |-> "x"])
        ELSE nodes

HrefListing == <<"/for-sale/", "sea-point/", "1">>
HrefListingAbsolute == <<"https://", "www.", "property24", ".com", "/for-sale/", "sea-point/", "2">>
HrefAgent == <<"/agents/", "9">>

OneImage == [imgs |-> <<Img(FALSE, ListingJpg, <<>>)>>, bgs |-> <<>>, scripts |-> <<>>]

\* the anchors (each with its href, if it has one) and the media of a fragment
RestInputs ==
    { [anchors |-> <<>>, media |-> NoMedia],
      [anchors |-> <<None, Some(HrefListing)>>, media |-> OneImage],
      [anchors |-> <<Some(HrefAgent), Some(HrefListingAbsolute)>>, media |-> OneImage] }

FragmentInputs ==
    { [nodes |-> nodes, anchors |-> rest.anchors, media |-> rest.media] :
        nodes \in {p \o d \o k : p \in PriceParts, d \in DetailParts, k \in KeywordParts}
                  \cup {Filled(p \o d \o k, n) :
                           p \in PriceParts, d \in DetailParts, k \in KeywordParts,
                           n \in FillLengths},
        rest \in RestInputs }

InitFields ==
    /\ ScrapeIdle
    /\ PageIdle
    /\ ImagesIdle
    /\ MultiIdle
    /\ PaceDefault
    /\ RestIdle
    /\ fpc = "ready"
    /\ fragment \in FragmentInputs
    /\ extract_images \in BOOLEAN
    /\ field_out = None

\* one call of _extract_property_data_enhanced
ExtractRecord ==
    /\ fpc = "ready"
    /\ field_out' = ExtractFields(fragment, extract_images)
    /\ fpc' = "done"
    /\ UNCHANGED <<fragment, extract_images, scrapeVars, pageVars, imageVars, multiVars, paceVars, restVars>>

NextFields == ExtractRecord

SpecFields == InitFields /\ [][NextFields]_vars

\* the text the extractor worked on
FragmentText == GetText(fragment.nodes)

\* C12: a fragment whose text has fewer than 30 or more than 2000 characters
\* gives no record, whatever it contains; a text of 30 to 2000 characters is
\* rejected only for want of both a price match and the development keyword.
C12_LengthGate ==
    fpc = "done" =>
        /\ (Len(FragmentText) < 30 \/ Len(FragmentText) > 2000) => field_out = None
        /\ (Len(FragmentText) >= 30 /\ Len(FragmentText) <= 2000 /\ field_out = None)
              => /\ PriceGroup(FragmentText) = None
                 /\ ~InText(KwDevelopment, Lower(FragmentText))

\* a text of 29 characters with a price line is rejected
C12_Witness ==
    /\ fpc = "done"
    /\ Len(FragmentText) = 29
    /\ PriceGroup(FragmentText) # None
    /\ field_out = None

\* the text has a length the gate lets through
Admissible == Len(FragmentText) >= MinTextLength /\ Len(FragmentText) <= MaxTextLength

\* C13 as stated: every record returned has an integer price, or no price and
\* type Development; a fragment with neither a price match nor the keyword
\* 'development' gives no record.
C13_Claim ==
    fpc = "done" =>
        /\ field_out # None =>
              \/ field_out[1].price # None
              \/ field_out[1].type = TypeDevelopment
        /\ (PriceGroup(FragmentText) = None
               /\ ~InText(KwDevelopment, Lower(FragmentText))) => field_out = None

\* the fragment of the scenario: R 1 250 000 2 Bed 1 Bath 85m² Pool Security
ScenarioNodes == <<NodePrice, NodeBeds, NodeBaths, NodeSize, NodeFeatures>>

\* C17 as stated: a text of admissible length that starts with the price line
\* R 1 250 000 gives price 1250000 whatever token follows, bedrooms 2 for
\* '2 Bed', bathrooms 1 for '1 Bath' and size_sqm 85 for '85m²'; the scenario
\* text gives highlights [Pool, Security], type Property and the title
\* '2 Bedroom Property'.
C17_Claim ==
    (fpc = "done" /\ Admissible /\ fragment.nodes # <<>> /\ fragment.nodes[1] = NodePrice) =>
        /\ field_out # None
        /\ field_out[1].price = Some(1250000)
        /\ NodeBeds \in Range(fragment.nodes) => field_out[1].bedrooms = Some(2)
        /\ NodeBaths \in Range(fragment.nodes) => field_out[1].bathrooms = Some(1)
        /\ NodeSize \in Range(fragment.nodes) => field_out[1].size_sqm = Some(85)
        /\ fragment.nodes = ScenarioNodes =>
              /\ field_out[1].highlights = <<"Pool", "Security">>
              /\ field_out[1].type = TypeProperty
              /\ field_out[1].title = <<"2"," ","B","e","d","r","o","o","m"," ">> \o TypeProperty

\* C19 as stated: a record whose fragment the price step tagged Development
\* has type Development, whatever type keywords the text contains.
C19_Claim ==
    (fpc = "done" /\ field_out # None
        /\ PriceStep(FragmentText).tag = Some(TypeDevelopment))
    => field_out[1].type = TypeDevelopment

\* C20 as stated: without 'apartment' and 'flat' in the text, 'townhouse' gives
\* type Townhouse and 'house' without 'townhouse' gives House; with none of the
\* keywords (and no Development tag) the type is Property.
C20_Claim ==
    (fpc = "done" /\ field_out # None
        /\ ~InText(KwApartment, Lower(FragmentText))
        /\ ~InText(KwFlat, Lower(FragmentText)))
    => /\ InText(KwTownhouse, Lower(FragmentText)) => field_out[1].type = TypeTownhouse
       /\ (InText(KwHouse, Lower(FragmentText)) /\ ~InText(KwTownhouse, Lower(FragmentText)))
             => field_out[1].type = TypeHouse
       /\ (~InText(KwHouse, Lower(FragmentText))
              /\ PriceStep(FragmentText).tag = None) => field_out[1].type = TypeProperty

\* the positions of the anchors whose href contains the for-sale marker
ListingAnchors ==
    {i \in 1..Len(fragment.anchors) :
        fragment.anchors[i] # None /\ Contains(fragment.anchors[i][1], "/for-sale/")}

\* C21 as stated: the url of a record is the href, made absolute, of the first
\* anchor of the fragment whose href contains '/for-sale/', whatever anchors
\* come before it; it is absent only when the fragment has no such anchor.
C21_Claim ==
    (fpc = "done" /\ field_out # None) =>
        IF ListingAnchors = {} THEN field_out[1].url = None
        ELSE LET first == CHOOSE i \in ListingAnchors : \A j \in ListingAnchors : i <= j
                 href == fragment.anchors[first][1]
             IN  field_out[1].url =
                    Some(IF StartsWithHttp(href) THEN href
                         ELSE <<"https://", "www.", "property24", ".com">> \o href)

\* C22 as stated: the title of a record is '<bedrooms> Bedroom <type>' when the
\* record has a bedrooms value, 0 included, and the type alone when it has none.
C22_Claim ==
    (fpc = "done" /\ field_out # None) =>
        field_out[1].title =
            IF field_out[1].bedrooms # None
            THEN StrOf(field_out[1].bedrooms[1])
                 \o <<" ","B","e","d","r","o","o","m"," ">> \o field_out[1].type
            ELSE field_out[1].type

-----------------------------------------------------------------------------
(* SpecMulti: one call of scrape_multiple_areas *)

\* longest list of areas a caller passes
MaxAreas == 2

AreaNameInputs ==
    { <<"S","e","a"," ","P","o","i","n","t">>,
      <<"c","l","i","f","t","o","n">>,
      <<"U","n","k","n","o","w","n"," ","P","l","a","c","e">> }

AreasInputs == SeqsUpTo(AreaNameInputs, MaxAreas)

ListingA ==
    ListingNode(Prop(Some(1200000), Some(2), Some(85), "https://www.property24.com/for-sale/a"))
ListingB ==
    ListingNode(Prop(Some(1200000), Some(2), Some(85), "https://www.property24.com/for-sale/b"))
ListingDevelopment == ListingNode(Prop(None, None, None, ""))

\* the pages the site answers with: no listing, one, two, a development
MultiSoupInputs ==
    {SoupOf(<<>>), SoupOf(<<ListingA>>), SoupOf(<<ListingA, ListingB>>),
     SoupOf(<<ListingDevelopment>>)}

InitMulti ==
    /\ PageIdle
    /\ ImagesIdle
    /\ FieldsIdle
    /\ PaceDefault
    /\ RestIdle
    /\ areas \in AreasInputs
    /\ max_pages \in {None, Some(1)}
    /\ mpc = "loop"
    /\ area_idx = 1
    /\ multi_properties = <<>>
    /\ df = [rows |-> <<>>, price_per_sqm |-> FALSE]
    /\ fetch_log = <<>>
    /\ area = <<>>
    /\ pc = "idle"
    /\ all_properties = <<>>
    /\ seen_urls = {}
    /\ page = 1
    /\ consecutive_empty_pages = 0
    /\ page_properties = <<>>
    /\ new_properties = <<>>
    /\ result = <<>>
    /\ fetched = <<>>
    /\ new_hist = <<>>
    /\ origin = <<>>
    /\ outcome = "none"

\* the loop body up to the call: self.scrape_area(area, ..., max_pages=...)
CallScrapeArea ==
    /\ mpc = "loop"
    /\ area_idx <= Len(areas)
    /\ area' = areas[area_idx]
    /\ pc' = "start"
    /\ mpc' = "running"
    /\ result' = <<>>
    /\ fetched' = <<>>
    /\ new_hist' = <<>>
    /\ origin' = <<>>
    /\ outcome' = "none"
    /\ UNCHANGED <<max_pages, all_properties, seen_urls, page, consecutive_empty_pages,
                   page_properties, new_properties, areas, area_idx, multi_properties,
                   df, fetch_log, pageVars, imageVars, fieldVars, paceVars, restVars>>

\* the call returned: all_properties.extend(properties), then the next area
\* (after time.sleep(self.delay * 2) when there is one)
ExtendProperties ==
    /\ mpc = "running"
    /\ pc = "returned"
    /\ multi_properties' = multi_properties \o result
    /\ events' = IF area_idx < Len(areas)
                 THEN Append(events, SleepEvent(delay * 2)) ELSE events
    /\ area_idx' = area_idx + 1
    /\ mpc' = "loop"
    /\ pc' = "idle"
    /\ UNCHANGED <<area, max_pages, all_properties, seen_urls, page,
                   consecutive_empty_pages, page_properties, new_properties, result,
                   fetched, new_hist, origin, outcome, areas, df, fetch_log,
                   pageVars, imageVars, fieldVars, delay, restVars>>

\* row['price'] / row['size_sqm'] where both are there and the size is positive;
\* the quotient is kept as the pair of its operands
PricePerSqm(row) ==
    IF row.price # None /\ row.size_sqm # None /\ row.size_sqm[1] > 0
    THEN Some(<<row.price[1], row.size_sqm[1]>>)
    ELSE None

\* pd.DataFrame(all_properties) with the price_per_sqm column, which is added
\* when the frame has rows, a price column and a size_sqm column (a column is
\* taken to be there when some row has a value in it)
DataFrame(rows) ==
    LET ratio == /\ \E i \in 1..Len(rows) : rows[i].price # None
                 /\ \E i \in 1..Len(rows) : rows[i].size_sqm # None
    IN  [rows |-> [i \in 1..Len(rows) |->
                      [record |-> rows[i],
                       price_per_sqm |-> IF ratio THEN PricePerSqm(rows[i]) ELSE None]],
         price_per_sqm |-> ratio]

\* after the loop: build the frame and return it
ReturnFrame ==
    /\ mpc = "loop"
    /\ area_idx > Len(areas)
    /\ df' = DataFrame(multi_properties)
    /\ mpc' = "done"
    /\ UNCHANGED <<scrapeVars, areas, area_idx, multi_properties, fetch_log,
                   pageVars, imageVars, fieldVars, paceVars, restVars>>

NextMulti ==
    \/ CallScrapeArea
    \/ Start
    \/ StopEmptyPages
    \/ StopCeiling
    \/ \E soup \in MultiSoupInputs : FetchAssemble(soup)
    \/ FetchFails("bad_status")
    \/ FetchFails("exception")
    \/ ExtendProperties
    \/ ReturnFrame

SpecMulti == InitMulti /\ [][NextMulti]_vars

\* the urls of the url-bearing records of a list
UrlsOf(props) == {props[i].url : i \in {j \in 1..Len(props) : HasUrl(props[j])}}

\* C18: the fetches are issued area by area in the caller's order, each area
\* from its page 1 on; each area starts with an empty seen set and a zero
\* empty-page counter, and the seen set of the area being scraped holds the
\* urls of that area's own records only, so what an area emits does not depend
\* on the other areas.
C18_AreasSequential ==
    /\ [](\A a, b \in 1..Len(fetch_log) :
            a < b => \/ fetch_log[a][1] < fetch_log[b][1]
                     \/ /\ fetch_log[a][1] = fetch_log[b][1]
                        /\ fetch_log[a][2] < fetch_log[b][2])
    /\ [](\A a \in 1..Len(fetch_log) :
            /\ fetch_log[a][1] \in 1..Len(areas)
            /\ fetch_log[a][1] <= area_idx
            /\ (a = 1 \/ fetch_log[a - 1][1] # fetch_log[a][1]) => fetch_log[a][2] = 1)
    /\ []((mpc = "running" /\ pc \in {"loop", "returned"} /\ outcome # "unknown_area")
            => seen_urls = UrlsOf(all_properties))
    /\ [][(pc = "start" /\ pc' = "loop")
            => (seen_urls' = {} /\ consecutive_empty_pages' = 0)]_vars

\* the same area was scraped twice, the first run ended by the empty-page rule,
\* and the listing the first run emitted was emitted by the second run again
C18_Witness ==
    /\ mpc = "done"
    /\ Len(areas) = 2 /\ areas[1] = areas[2]
    /\ \E a, b \in 1..Len(fetch_log) :
          /\ fetch_log[a] = <<1, 3>>
          /\ fetch_log[b] = <<2, 1>>
    /\ \E i, j \in 1..Len(multi_properties) :
          /\ i < j
          /\ HasUrl(multi_properties[i])
          /\ multi_properties[i].url = multi_properties[j].url
    /\ df.price_per_sqm

\* the ancestors of an element whose text has at least 50 characters
LongAncestors(el) == {i \in 1..Len(el.parents) : el.parents[i].textlen >= MinContainerText}

\* the fragment of a matched element: for an anchor the nearest ancestor with
\* at least 50 characters of text, none when there is no such ancestor; any
\* other element itself
FragmentOf(el) ==
    IF el.name # "a" THEN Some(el.node)
    ELSE IF LongAncestors(el) = {} THEN None
    ELSE Some(el.parents[CHOOSE i \in LongAncestors(el) : \A j \in LongAncestors(el) : i <= j])

-----------------------------------------------------------------------------
(* SpecPace: one run of scrape_area of a scraper constructed with a delay *)

\* delay_between_requests arguments, in seconds
DelayInputs == {1, 2}

InitPace ==
    /\ InitScrape
    /\ area = <<"S","e","a"," ","P","o","i","n","t">>
    /\ PageIdle
    /\ ImagesIdle
    /\ FieldsIdle
    /\ MultiIdle
    /\ RestIdle
    /\ delay \in DelayInputs
    /\ events = <<>>

NextPace ==
    \/ Start
    \/ StopEmptyPages
    \/ StopCeiling
    \/ \E soup \in MultiSoupInputs : FetchAssemble(soup)
    \/ FetchFails("bad_status")
    \/ FetchFails("exception")

SpecPace == InitPace /\ [][NextPace]_vars

\* C23: the pages fetched in a run are 1, 2, ..., k in this order, each once;
\* every page fetched has been assembled and filtered before the next fetch is
\* issued, the only page left unprocessed being a last one whose fetch failed
\* and ended the run.
C23_PagesInOrder ==
    /\ fetched = [i \in 1..Len(fetched) |-> i]
    /\ \/ Len(new_hist) = Len(fetched)
       \/ /\ Len(new_hist) = Len(fetched) - 1
          /\ pc = "returned"
          /\ outcome \in FetchFailures

\* a run that fetched three pages, the third fetch failing
C23_Witness ==
    /\ pc = "returned"
    /\ fetched = <<1, 2, 3>>
    /\ Len(new_hist) = 2
    /\ outcome \in FetchFailures

\* the positions of the fetches in the event list
FetchPositions == {i \in 1..Len(events) : events[i].e = "fetch"}

\* C24: between any two consecutive fetches of a run there is exactly one
\* pause, of the delay the scraper was constructed with, and no pause follows
\* a fetch that failed.
C24_DelayBetweenFetches ==
    /\ \A i, j \in FetchPositions :
          (i < j /\ \A k \in FetchPositions : ~(i < k /\ k < j))
              => (j = i + 2 /\ events[i + 1] = SleepEvent(delay))
    /\ (outcome \in FetchFailures) => events[Len(events)].e = "fetch"

\* a scraper with a delay of two seconds fetched two pages, the second failed
C24_Witness ==
    /\ pc = "returned"
    /\ delay = 2
    /\ outcome \in FetchFailures
    /\ events = <<FetchEvent(1), SleepEvent(2), FetchEvent(2)>>

\* the records the run had emitted before the page fetched last
EmittedBefore == SubSeq(all_properties, 1, Len(all_properties) - Len(new_properties))

\* C28 as stated: with every fetch answering 200 and no page ceiling, a run
\* stops once the pages only repeat records that earlier pages produced,
\* whether those records have a url or not; only two pages in a row without a
\* new record end such a run, so a page that only repeats must count as one.
C28_Claim ==
    (pc = "loop" /\ max_pages = None /\ outcome = "ok" /\ Len(fetched) >= 2
        /\ \A r \in Range(page_properties) : r \in Range(EmittedBefore))
    => consecutive_empty_pages >= 1

-----------------------------------------------------------------------------
(* SpecJson: Method 3 of extract_property_images on one script block       *)
(*                                                                         *)
(* The payload root is at level 0 and each descent into an object or array *)
(* value adds one level.  A payload of the input family is a chain of      *)
(* wrappers around one leaf object that holds one image key; the url under *)
(* that key names the level of the leaf object and the level of the        *)
(* object or array the url string sits in.                                 *)

\* the longest chain of wrappers
MaxNest == 6

\* https://cdn/<level of the object with the image key>/<level of the holder>
LeafUrl(key_level, holder_level) ==
    <<"https://", "cdn/", DigitChars[key_level + 1], "/", DigitChars[holder_level + 1]>>

KeyLevel(img) == DigitVal(img.s[3])
HolderLevel(img) == DigitVal(img.s[5])

LeafKinds == {"list", "direct", "entry", "nested"}

\* the leaf object at level d
Leaf(kind, d) ==
    CASE kind = "list" ->
           JObj(<< <<"id", JNum(d)>>, <<"images", JArr(<< JStr(LeafUrl(d, d + 1)) >>)>> >>)
      [] kind = "direct" ->
           JObj(<< <<"imageUrl", JStr(LeafUrl(d, d))>> >>)
      [] kind = "entry" ->
           JObj(<< <<"gallery", JArr(<< JObj(<< <<"url", JStr(LeafUrl(d, d + 2))>> >>) >>)>> >>)
      [] kind = "nested" ->
           JObj(<< <<"image", JObj(<< <<"photos", JArr(<< JStr(LeafUrl(d + 1, d + 2)) >>)>> >>)>> >>)

\* {"data": inner} for an "obj" step, [inner] for an "arr" step
RECURSIVE Nest(_, _, _)
Nest(path, i, leaf) ==
    IF i > Len(path) THEN leaf
    ELSE IF path[i] = "obj" THEN JObj(<< <<"data", Nest(path, i + 1, leaf)>> >>)
    ELSE JArr(<< Nest(path, i + 1, leaf) >>)

PathInputs == SeqsUpTo({"obj", "arr"}, MaxNest)

\* script.string: text json.loads rejects, and well-formed payloads
PayloadInputs ==
    {None} \cup {Some(Nest(path, 1, Leaf(kind, Len(path)))) : path \in PathInputs, kind \in LeafKinds}

InitJson ==
    /\ ScrapeIdle
    /\ PageIdle
    /\ ImagesIdle
    /\ FieldsIdle
    /\ MultiIdle
    /\ PaceDefault
    /\ BulkIdle
    /\ ImportIdle
    /\ jpc = "ready"
    /\ payload \in PayloadInputs
    /\ json_images = <<>>

\* one turn of "for script in scripts" on an empty images list
WalkPayload ==
    /\ jpc = "ready"
    /\ json_images' = ScriptStep(<<>>, payload)
    /\ jpc' = "done"
    /\ UNCHANGED <<payload, scrapeVars, pageVars, imageVars, fieldVars, multiVars,
                   paceVars, bulkVars, importVars>>

NextJson == WalkPayload

SpecJson == InitJson /\ [][NextJson]_vars

\* C25 as stated: the walk reads no object or array more than 5 levels below
\* the payload root, so no url it collects sits in one.
C25_Original ==
    jpc = "done" => \A i \in 1..Len(json_images) : HolderLevel(json_images[i]) <= MaxJsonDepth

\* C25: the walk ends on every payload, and it looks for image keys only in
\* objects at most 5 levels below the payload root; the list under such a key
\* and the url field of the objects in that list are read whatever their
\* level, so what is collected sits at most 2 levels below the object that
\* holds the key.
C25_DepthCeiling ==
    /\ jpc \in {"ready", "done"}
    /\ jpc = "ready" => ENABLED WalkPayload
    /\ jpc = "done" =>
          \A i \in 1..Len(json_images) :
             /\ KeyLevel(json_images[i]) <= MaxJsonDepth
             /\ HolderLevel(json_images[i]) <= KeyLevel(json_images[i]) + 2

\* a url was collected from an entry at level 7, under a key of a level-5 object
C25_Witness ==
    /\ jpc = "done"
    /\ json_images = << JStr(LeafUrl(MaxJsonDepth, MaxJsonDepth + 2)) >>

\* the absolute-url strings a value under an image key gives: the value
\* itself, the strings of a list and the url fields of its objects
AbsoluteUnder(value) ==
    IF value.t = "str" THEN IF StartsWithHttp(value.s) THEN {value} ELSE {}
    ELSE IF value.t = "arr"
    THEN {value.items[i] : i \in {j \in 1..Len(value.items) :
                                     /\ value.items[j].t = "str"
                                     /\ StartsWithHttp(value.items[j].s)}}
         \cup {GetKey(value.items[i], "url") : i \in {j \in 1..Len(value.items) :
                                     /\ value.items[j].t = "obj"
                                     /\ HasKey(value.items[j], "url")
                                     /\ GetKey(value.items[j], "url").t = "str"
                                     /\ StartsWithHttp(GetKey(value.items[j], "url").s)}}
    ELSE {}

\* every absolute-url string under an image key of an object at most 5 levels
\* below the root, wherever the object sits
RECURSIVE UnderImageKeys(_, _)
UnderImageKeys(value, level) ==
    IF value.t = "obj"
    THEN UNION {(IF value.kv[i][1] \in ImageKeys /\ level <= MaxJsonDepth
                 THEN AbsoluteUnder(value.kv[i][2]) ELSE {})
                \cup UnderImageKeys(value.kv[i][2], level + 1) : i \in 1..Len(value.kv)}
    ELSE IF value.t = "arr"
    THEN UNION {UnderImageKeys(value.items[i], level + 1) : i \in 1..Len(value.items)}
    ELSE {}

\* C26 as stated: of a well-formed payload, every absolute-url string under
\* an image key within the depth ceiling is collected, wherever the key sits.
C26_Claim ==
    (jpc = "done" /\ payload # None)
    => UnderImageKeys(payload[1], 0) \subseteq Range(json_images)

-----------------------------------------------------------------------------
(* SpecBulk: DatabaseUtils.bulk_insert_properties, called one at a time    *)
(*                                                                         *)
(* The collection is the list of its documents in insertion order; nothing *)
(* deletes from it and its url index is not unique.  A document keeps the  *)
(* url and the price of the dict it was built from; a dict without a title *)
(* cannot be built into a Property (title is a required field).            *)

\* the longest properties_data list
MaxBatch == 2

\* the number of calls followed
MaxCalls == 2

PropData(url, price, titled) == [url |-> url, price |-> price, titled |-> titled]

\* dicts of a batch: the same url at two prices, no url, another url, no title
PropDataInputs ==
    { PropData(Some("https://www.property24.com/for-sale/a"), 1200000, TRUE),
      PropData(Some("https://www.property24.com/for-sale/a"), 1150000, TRUE),
      PropData(None, 1200000, TRUE),
      PropData(Some("https://www.property24.com/for-sale/b"), 990000, TRUE),
      PropData(Some("https://www.property24.com/for-sale/c"), 990000, FALSE) }

BatchInputs == SeqsUpTo(PropDataInputs, MaxBatch)

\* await Property.find_one(Property.url == url): the first match, or None
FindOne(collection, url) ==
    LET hits == {i \in 1..Len(collection) : collection[i].url = Some(url)}
    IN  IF hits = {} THEN None
        ELSE Some(CHOOSE i \in hits : \A j \in hits : i <= j)

\* the dicts of the batch that pass "if existing: continue", in batch order
RECURSIVE NotStored(_, _, _)
NotStored(properties_data, i, collection) ==
    IF i > Len(properties_data) THEN <<>>
    ELSE LET prop_data == properties_data[i]
         IN  IF prop_data.url # None /\ FindOne(collection, prop_data.url[1]) # None
             THEN NotStored(properties_data, i + 1, collection)
             ELSE <<prop_data>> \o NotStored(properties_data, i + 1, collection)

\* Property(**prop_data)
PropertyOf(prop_data) == [url |-> prop_data.url, price |-> prop_data.price]

InitBulk ==
    /\ ScrapeIdle
    /\ PageIdle
    /\ ImagesIdle
    /\ FieldsIdle
    /\ MultiIdle
    /\ PaceDefault
    /\ JsonIdle
    /\ ImportIdle
    /\ BulkIdle

\* one call; a dict that cannot be built raises before anything is inserted
BulkInsertProperties(properties_data) ==
    /\ bulk_calls < MaxCalls
    /\ bulk_calls' = bulk_calls + 1
    /\ LET passed == NotStored(properties_data, 1, stored)
       IN  IF \E i \in 1..Len(passed) : ~passed[i].titled
           THEN /\ stored' = stored
                /\ bulk_ret' = None
           ELSE /\ stored' = stored \o [i \in 1..Len(passed) |-> PropertyOf(passed[i])]
                /\ bulk_ret' = Some(Len(passed))
    /\ UNCHANGED <<scrapeVars, pageVars, imageVars, fieldVars, multiVars, paceVars,
                   jsonVars, importVars>>

NextBulk == \E properties_data \in BatchInputs : BulkInsertProperties(properties_data)

SpecBulk == InitBulk /\ [][NextBulk]_vars

\* no two documents of the collection have the same present url
NoDuplicateUrls ==
    \A i, j \in 1..Len(stored) :
        (i < j /\ stored[i].url # None) => stored[i].url # stored[j].url

\* C29 as stated: after any sequence of calls no two stored properties have
\* the same present url, also when a url occurs twice in one batch; a call
\* leaves the stored documents as they are, and the count it returns is the
\* number of documents it inserted.
C29_Claim ==
    /\ []NoDuplicateUrls
    /\ [][/\ IsPrefix(stored, stored')
          /\ bulk_ret' # None => bulk_ret'[1] = Len(stored') - Len(stored)]_vars

-----------------------------------------------------------------------------
(* SpecImport: two requests to /api/scraper/import handled concurrently    *)
(*                                                                         *)
(* A request runs import_scraper_data on its own list; the event loop can  *)
(* switch to the other request at every await, so a request takes a step   *)
(* for each database operation it awaits: the find_one of a record, its    *)
(* insert or save, and the count before the response.                      *)

\* the requests in flight
Requests == {1, 2}

\* the longest scraped_properties list of a request
MaxReq == 2

\* a dict of the scraper: its url (absent when the listing had no link), its
\* price and its type
ScraperData(url, price, type) == [url |-> url, price |-> price, type |-> type]

ScraperDataInputs ==
    { ScraperData(Some("https://www.property24.com/for-sale/a"), 1200000, "Apartment"),
      ScraperData(Some("https://www.property24.com/for-sale/a"), 1150000, "Apartment"),
      ScraperData(None, 1200000, "House") }

\* convert_scraper_output_to_property(scraper_data): the PropertyCreate
ConvertScraperOutputToProperty(scraper_data) ==
    [title |-> "Property",
     area |-> "Unknown",
     url |-> scraper_data.url,
     price |-> scraper_data.price,
     property_type |-> scraper_data.type]

\* the collection when the requests arrive: empty, or holding the listing
StoredInputs ==
    { <<>>,
      << [url |-> Some("https://www.property24.com/for-sale/a"), price |-> 1200000] >> }

InitImport ==
    /\ ScrapeIdle
    /\ PageIdle
    /\ ImagesIdle
    /\ FieldsIdle
    /\ MultiIdle
    /\ PaceDefault
    /\ JsonIdle
    /\ stored \in StoredInputs
    /\ bulk_calls = 0
    /\ bulk_ret = None
    /\ scraped_properties \in [Requests -> SeqsUpTo(ScraperDataInputs, MaxReq)]
    /\ ipc_req = [r \in Requests |-> "check"]
    /\ req_idx = [r \in Requests |-> 1]
    /\ existing = [r \in Requests |-> None]
    /\ processed_count = [r \in Requests |-> 0]

\* the PropertyCreate of the record request r is at
PropertyCreateOf(r) == ConvertScraperOutputToProperty(scraped_properties[r][req_idx[r]])

\* "existing = None; if property_create.url: existing = await find_one(...)":
\* the document found, as it was read
CheckExisting(r) ==
    /\ ipc_req[r] = "check"
    /\ req_idx[r] <= Len(scraped_properties[r])
    /\ LET property_create == PropertyCreateOf(r)
           found == IF property_create.url = None THEN None
                    ELSE FindOne(stored, property_create.url[1])
       IN  existing' = [existing EXCEPT ![r] =
                           IF found = None THEN None
                           ELSE Some([at |-> found[1], price |-> stored[found[1]].price])]
    /\ ipc_req' = [ipc_req EXCEPT ![r] = "write"]
    /\ UNCHANGED <<stored, bulk_calls, bulk_ret, scraped_properties, req_idx, processed_count,
                   scrapeVars, pageVars, imageVars, fieldVars, multiVars, paceVars, jsonVars>>

\* "await property_obj.insert()" when nothing was found, else
\* "await existing.save()" when the price differs
InsertOrUpdate(r) ==
    /\ ipc_req[r] = "write"
    /\ LET property_create == PropertyCreateOf(r)
       IN  IF existing[r] = None
           THEN /\ stored' = Append(stored, PropertyOf(property_create))
                /\ processed_count' = [processed_count EXCEPT ![r] = @ + 1]
           ELSE /\ stored' = IF existing[r][1].price # property_create.price
                             THEN [stored EXCEPT ![existing[r][1].at].price = property_create.price]
                             ELSE stored
                /\ processed_count' = processed_count
    /\ req_idx' = [req_idx EXCEPT ![r] = @ + 1]
    /\ existing' = [existing EXCEPT ![r] = None]
    /\ ipc_req' = [ipc_req EXCEPT ![r] = "check"]
    /\ UNCHANGED <<bulk_calls, bulk_ret, scraped_properties,
                   scrapeVars, pageVars, imageVars, fieldVars, multiVars, paceVars, jsonVars>>

\* "total_properties = await Property.count()" and the response
Respond(r) ==
    /\ ipc_req[r] = "check"
    /\ req_idx[r] > Len(scraped_properties[r])
    /\ ipc_req' = [ipc_req EXCEPT ![r] = "done"]
    /\ UNCHANGED <<stored, bulk_calls, bulk_ret, scraped_properties, req_idx, existing,
                   processed_count,
                   scrapeVars, pageVars, imageVars, fieldVars, multiVars, paceVars, jsonVars>>

NextImport ==
    \/ \E r \in Requests : CheckExisting(r)
    \/ \E r \in Requests : InsertOrUpdate(r)
    \/ \E r \in Requests : Respond(r)

SpecImport == InitImport /\ [][NextImport]_vars

\* C30 as stated: whatever the interleaving of two requests at their awaits,
\* when both have answered at most one stored property has a given present
\* url, as if the find-by-url check and the insert were one step.
C30_Claim ==
    (\A r \in Requests : ipc_req[r] = "done") => NoDuplicateUrls

====
